---- MODULE Spec2Model ----
(***************************************************************************)
(* ImpactGuard (src/guard.py): the mock assessment run, the session state  *)
(* it shares with the Streamlit UI thread, and the UI handlers that start  *)
(* and stop it.                                                            *)
(*                                                                         *)
(* guard.py holds two top-level scripts one after the other.  Both define  *)
(* run_mock_test; the first (lines 748-829) has no finally clause, the     *)
(* second (lines 1895-1980) has one.  The variable script says which of    *)
(* the two the session runs.                                               *)
(*                                                                         *)
(* progress is kept as the numerator of the fraction the code stores:      *)
(* the code writes (i + 1) / total_steps, the model writes i + 1, so that  *)
(* progress = k here reads progress = k / 100 there.                       *)
(***************************************************************************)
EXTENDS Integers, Sequences, FiniteSets, TLC

\* ------------------------------------------------------------------ bounds

\* how many worker threads one behaviour may start
MaxRuns == 2
\* how many findings the random draws of one session may produce in all
MaxFindings == 1
\* how many findings the random draws of one call of run_mock_test may produce
MaxCallFindings == 2
\* random.choice ranges over the first MaxChoice vectors of test_vectors
MaxChoice == 2
\* how many targets the targets list may hold at a time
MaxTargets == 2
\* how many targets the user configures in a session that runs assessments
MaxSessionTargets == 1
\* a run is started over a live worker only when that worker has at most
\* MaxOverlap loop iterations left
MaxOverlap == 2
\* the largest value of retries a caller of retry_request passes
MaxRetries == 3
\* how many dot-separated parts the name of an uploaded file has at most
MaxParts == 2
\* how many authors an article has at most
MaxAuthors == 21
\* how many digits the registrant code of a candidate DOI has at most
MaxDoiDigits == 10
\* how many measurements a CarbonImpactTracker takes at most
MaxMeasurements == 3

\* --------------------------------------------------------- program constants

total_steps == 100
\* total_tests = len(test_vectors) * 10
VariationsPerVector == 10
\* def retry_request(url, method='head', retries=3, timeout=5)
DefaultRetries == 3

Workers == 1..MaxRuns

\* ------------------------------------------------------------- plain values

\* Python None, and a slot that holds nothing yet
None == <<>>
Now == "now"
EmptyDict == <<>>

IsEmptyDict(d) == DOMAIN d = {}

Min(a, b) == IF a < b THEN a ELSE b

\* ------------------------------------------------------------ test vectors

TestVector(id, name, category, severity) ==
    [id |-> id, name |-> name, category |-> category, severity |-> severity]

MockTestVectors ==
    << TestVector("sql_injection", "SQL Injection", "owasp", "high"),
       TestVector("xss", "Cross-Site Scripting", "owasp", "medium"),
       TestVector("prompt_injection", "Prompt Injection", "owasp", "critical"),
       TestVector("insecure_output", "Insecure Output Handling", "owasp", "high"),
       TestVector("nist_governance", "AI Governance", "nist", "medium"),
       TestVector("nist_transparency", "Transparency", "nist", "medium"),
       TestVector("fairness_demographic", "Demographic Parity", "fairness", "high"),
       TestVector("privacy_gdpr", "GDPR Compliance", "privacy", "critical"),
       TestVector("jailbreaking", "Jailbreaking Resistance", "exploit", "critical") >>

\* get_mock_test_vectors returns the catalogue, or [] from its except branch
get_mock_test_vectors == { MockTestVectors, <<>> }

\* a weight table with one entry off: critical counted as 4
severity_weight_critical4(severity) ==
    CASE severity = "low" -> 1
      [] severity = "medium" -> 2
      [] severity = "high" -> 3
      [] severity = "critical" -> 4
      [] OTHER -> 1

\* severity_weight.get(severity, 1)
severity_weight(severity) ==
    CASE severity = "low" -> 1
      [] severity = "medium" -> 2
      [] severity = "high" -> 3
      [] severity = "critical" -> 5
      [] OTHER -> 1

\* an id counted from the length of the list before the append, without the + 1
VulnIdFromZero(n) == <<"VULN-", n - 1>>

\* f"VULN-{n}"
VulnId(n) == <<"VULN-", n>>

\* the vulnerability dict run_mock_test builds for vector, as its n-th finding
Vulnerability(n, vector, target) ==
    [ id |-> VulnId(n),
      test_vector |-> vector.id,
      test_name |-> vector.name,
      severity |-> vector.severity,
      details |-> <<"Mock vulnerability found in ", target.name, " using ",
                    vector.name, " test vector.">>,
      timestamp |-> Now ]

\* a results dict whose summary counts one finding before any is made
NewResultsCountingOne ==
    [ summary |-> [total_tests |-> 0, vulnerabilities_found |-> 1, risk_score |-> 0],
      vulnerabilities |-> <<>>,
      test_details |-> EmptyDict ]

\* the results dict run_mock_test creates before its loop
NewResults ==
    [ summary |-> [total_tests |-> 0, vulnerabilities_found |-> 0, risk_score |-> 0],
      vulnerabilities |-> <<>>,
      test_details |-> EmptyDict ]

\* a finding put at the head of the list instead of its end
AddFindingAtHead(res, vector, target) ==
    LET v == Vulnerability(Len(res.vulnerabilities) + 1, vector, target)
    IN  [res EXCEPT !.vulnerabilities = << v >> \o @,
                    !.summary.vulnerabilities_found = @ + 1,
                    !.summary.risk_score = @ + severity_weight(vector.severity)]

\* results after one more finding: the append and the two summary counters
AddFinding(res, vector, target) ==
    LET v == Vulnerability(Len(res.vulnerabilities) + 1, vector, target)
    IN  [res EXCEPT !.vulnerabilities = Append(@, v),
                    !.summary.vulnerabilities_found = @ + 1,
                    !.summary.risk_score = @ + severity_weight(vector.severity)]

\* completion that counts the vectors only, without the 10 variations of each
CompleteResultsPerVector(res, test_vectors, target) ==
    [ summary |-> [res.summary EXCEPT !.total_tests = Len(test_vectors)],
      vulnerabilities |-> res.vulnerabilities,
      test_details |-> res.test_details,
      timestamp |-> Now,
      target |-> target.name ]

\* results as completed after the loop
CompleteResults(res, test_vectors, target) ==
    [ summary |-> [res.summary EXCEPT !.total_tests = Len(test_vectors) * VariationsPerVector],
      vulnerabilities |-> res.vulnerabilities,
      test_details |-> res.test_details,
      timestamp |-> Now,
      target |-> target.name ]

\* the message of the IndexError random.choice raises on an empty sequence
EmptyChoiceMessage == <<"Cannot choose from an empty sequence">>

\* the error_details dict of the except clause
ErrorDetails(message) ==
    [ error |-> TRUE,
      error_message |-> message,
      traceback |-> <<"Traceback (most recent call last)">> \o message,
      timestamp |-> Now ]

\* f"Test execution failed: {str(e)}"
FailureMessage(message) == <<"Test execution failed: ">> \o message

\* ------------------------------------------------------- carbon tracker

\* CarbonImpactTracker.__init__
NewCarbonTracker ==
    [ tracker |-> None, measurements |-> <<>>, total_emissions |-> 0, is_tracking |-> FALSE ]

\* CarbonImpactTracker.initialize_tracker
initialize_tracker(self, project_name) ==
    [self EXCEPT !.tracker = [project_name |-> project_name, initialized |-> TRUE]]

\* CarbonImpactTracker.start_tracking
start_tracking(self) ==
    IF self.tracker = None THEN self ELSE [self EXCEPT !.is_tracking = TRUE]

\* what start_tracking returns
start_tracking_returns(self) == self.tracker # None

\* a stop_tracking that records the measurement and goes on tracking
stop_tracking_still_tracking(self, emissions) ==
    IF ~self.is_tracking \/ self.tracker = None THEN self
    ELSE [self EXCEPT !.measurements = Append(@, emissions),
                      !.total_emissions = @ + emissions]

\* CarbonImpactTracker.stop_tracking, with the value random.uniform draws
stop_tracking(self, emissions) ==
    IF ~self.is_tracking \/ self.tracker = None THEN self
    ELSE [self EXCEPT !.is_tracking = FALSE,
                      !.measurements = Append(@, emissions),
                      !.total_emissions = @ + emissions]

\* what stop_tracking returns
stop_tracking_returns(self, emissions) ==
    IF ~self.is_tracking \/ self.tracker = None THEN 0 ELSE emissions

\* ------------------------------------------------------------------ state

VARIABLES
    script,                 \* 1: the first script of guard.py, 2: the second
    running_test,           \* st.session_state.running_test
    progress,               \* st.session_state.progress, times total_steps
    vulnerabilities_found,  \* st.session_state.vulnerabilities_found
    test_results,           \* st.session_state.test_results
    error_message,          \* st.session_state.error_message
    targets,                \* st.session_state.targets
    active_threads,         \* st.session_state.active_threads
    carbon_tracker,         \* st.session_state.carbon_tracker, None when absent
    carbon_tracking_active, \* st.session_state.carbon_tracking_active
    ui,                     \* where the UI thread is in the Run Assessment handler
    pc,                     \* per worker thread: where it is in run_mock_test
    args,                   \* per worker thread: target, test_vectors, duration
    i,                      \* per worker thread: loop iterations completed
    results,                \* per worker thread: the local results dict
    loaded,                 \* per worker thread: the counter value read by +=
    raised,                 \* per worker thread: the message of the exception raised
    ret,                    \* per worker thread: the value returned
    draws_left,             \* findings the random draws may still produce
    cancelled,              \* per worker thread: "no", or what it has done since a Stop Test
                            \* click found it alive: "yes" nothing yet, "stepped" a loop step
    session_state,          \* st.session_state as the dict main sees: present slots only
    main,                   \* where the UI thread is in main, which slot's initialisation has
                            \* thrown in this run of the script (0: none), what the last run shows
    shown,                  \* the progress panel of the Run Assessment page
    retry,                  \* a call of retry_request
    upload,                 \* a call of handle_multiple_file_formats
    citation,               \* a call of one of the citation helpers
    carbon                  \* the last CarbonImpactTracker method called, its return value

session == << running_test, progress, vulnerabilities_found, test_results, error_message >>
page == << targets, active_threads, carbon_tracker, carbon_tracking_active, ui >>
locals == << pc, args, i, results, loaded, raised, ret >>
\* what a run of the assessment leaves alone
rest == << session_state, main, shown, retry, upload, citation, carbon >>
vars == << script, session, page, locals, draws_left, cancelled, rest >>

\* thread.is_alive()
is_alive(w) == pc[w] \notin {"idle", "done"}

\* ---------------------------------------------------------- run_mock_test

\* where a worker goes after its try body or its except clause
AfterTry == IF script = 2 THEN "finally" ELSE "done"

\* a run start that also discards the RunResult of the previous run
ResetProgressAndResults(w) ==
    /\ pc[w] = "reset_progress"
    /\ progress' = 0
    /\ test_results' = EmptyDict
    /\ pc' = [pc EXCEPT ![w] = "reset_vulns"]
    /\ UNCHANGED << script, rest, running_test, vulnerabilities_found,
                    error_message, page, args, i, results, loaded, raised, ret, draws_left, cancelled >>

\* st.session_state.progress = 0
ResetProgress(w) ==
    /\ pc[w] = "reset_progress"
    /\ progress' = 0
    /\ pc' = [pc EXCEPT ![w] = "reset_vulns"]
    /\ UNCHANGED << script, rest, running_test, vulnerabilities_found, test_results,
                    error_message, page, args, i, results, loaded, raised, ret, draws_left, cancelled >>

\* st.session_state.vulnerabilities_found = 0
ResetVulnerabilities(w) ==
    /\ pc[w] = "reset_vulns"
    /\ vulnerabilities_found' = 0
    /\ pc' = [pc EXCEPT ![w] = "set_running"]
    /\ UNCHANGED << script, rest, running_test, progress, test_results,
                    error_message, page, args, i, results, loaded, raised, ret, draws_left, cancelled >>

\* st.session_state.running_test = True, then the local results and step count
SetRunning(w) ==
    /\ pc[w] = "set_running"
    /\ running_test' = TRUE
    /\ results' = [results EXCEPT ![w] = NewResults]
    /\ i' = [i EXCEPT ![w] = 0]
    /\ pc' = [pc EXCEPT ![w] = "check"]
    /\ UNCHANGED << script, rest, progress, vulnerabilities_found, test_results,
                    error_message, page, args, loaded, raised, ret, draws_left, cancelled >>

\* the top of an iteration: break when the flag has been cleared
CheckCancelled(w) ==
    /\ pc[w] = "check"
    /\ pc' = [pc EXCEPT ![w] = IF running_test THEN "sleep" ELSE "finalize"]
    /\ UNCHANGED << script, rest, session, page, args, i, results, loaded, raised, ret,
                    draws_left, cancelled >>

\* where the loop goes after iteration number n (1-based) is over
AfterIteration(n) == IF n < total_steps THEN "check" ELSE "finalize"

\* time.sleep(step_sleep); progress = (i + 1) / total_steps; the random draw
\* and, on a hit, random.choice and the local append
SleepAndStep(w) ==
    /\ pc[w] = "sleep"
    /\ progress' = i[w] + 1
    /\ cancelled' = [cancelled EXCEPT ![w] = IF @ = "no" THEN "no" ELSE "stepped"]
    /\ \/ \* random.random() >= 0.2
          /\ i' = [i EXCEPT ![w] = @ + 1]
          /\ pc' = [pc EXCEPT ![w] = AfterIteration(i[w] + 1)]
          /\ UNCHANGED << results, raised, draws_left >>
       \/ \* random.random() < 0.2, random.choice raises on an empty sequence
          /\ Len(args[w].test_vectors) = 0
          /\ raised' = [raised EXCEPT ![w] = EmptyChoiceMessage]
          /\ pc' = [pc EXCEPT ![w] = "except"]
          /\ UNCHANGED << i, results, draws_left >>
       \/ \* random.random() < 0.2, a vector is chosen
          /\ draws_left > 0
          /\ \E k \in 1..Min(Len(args[w].test_vectors), MaxChoice) :
                results' = [results EXCEPT ![w] =
                              AddFinding(@, args[w].test_vectors[k], args[w].target)]
          /\ draws_left' = draws_left - 1
          /\ pc' = [pc EXCEPT ![w] = "load"]
          /\ UNCHANGED << i, raised >>
    /\ UNCHANGED << script, rest, running_test, vulnerabilities_found, test_results,
                    error_message, page, args, loaded, ret >>

\* st.session_state.vulnerabilities_found += 1: the read
LoadCounter(w) ==
    /\ pc[w] = "load"
    /\ loaded' = [loaded EXCEPT ![w] = vulnerabilities_found]
    /\ pc' = [pc EXCEPT ![w] = "store"]
    /\ UNCHANGED << script, rest, session, page, args, i, results, raised, ret, draws_left, cancelled >>

\* st.session_state.vulnerabilities_found += 1: the write
StoreCounter(w) ==
    /\ pc[w] = "store"
    /\ vulnerabilities_found' = loaded[w] + 1
    /\ loaded' = [loaded EXCEPT ![w] = 0]
    /\ i' = [i EXCEPT ![w] = @ + 1]
    /\ pc' = [pc EXCEPT ![w] = AfterIteration(i[w] + 1)]
    /\ UNCHANGED << script, rest, running_test, progress, test_results,
                    error_message, page, args, results, raised, ret, draws_left, cancelled >>

\* the locals of worker w once it has returned: a frame that is gone
Returned(w) ==
    /\ args' = [args EXCEPT ![w] = None]
    /\ i' = [i EXCEPT ![w] = 0]
    /\ results' = [results EXCEPT ![w] = EmptyDict]
    /\ loaded' = [loaded EXCEPT ![w] = 0]
    /\ raised' = [raised EXCEPT ![w] = None]
    /\ cancelled' = [cancelled EXCEPT ![w] = "no"]

\* after the loop: complete the results, store them, return them
Finalize(w) ==
    /\ pc[w] = "finalize"
    /\ LET done == CompleteResults(results[w], args[w].test_vectors, args[w].target)
       IN  /\ test_results' = done
           /\ ret' = [ret EXCEPT ![w] = done]
    /\ pc' = [pc EXCEPT ![w] = AfterTry]
    /\ IF AfterTry = "done"
       THEN Returned(w)
       ELSE UNCHANGED << args, i, results, loaded, raised, cancelled >>
    /\ UNCHANGED << script, rest, running_test, progress, vulnerabilities_found,
                    error_message, page, draws_left >>

\* except Exception as e
Except(w) ==
    /\ pc[w] = "except"
    /\ error_message' = FailureMessage(raised[w])
    /\ ret' = [ret EXCEPT ![w] = ErrorDetails(raised[w])]
    /\ pc' = [pc EXCEPT ![w] = AfterTry]
    /\ IF AfterTry = "done"
       THEN Returned(w)
       ELSE UNCHANGED << args, i, results, loaded, raised, cancelled >>
    /\ UNCHANGED << script, rest, running_test, progress, vulnerabilities_found,
                    test_results, page, draws_left >>

\* finally: st.session_state.running_test = False, and the function returns
Finally(w) ==
    /\ pc[w] = "finally"
    /\ running_test' = FALSE
    /\ pc' = [pc EXCEPT ![w] = "done"]
    /\ Returned(w)
    /\ UNCHANGED << script, rest, progress, vulnerabilities_found, test_results,
                    error_message, page, ret, draws_left >>

\* ------------------------------------------------------------- the UI thread

\* a cleanup that drops the oldest tracked thread, alive or not
cleanup_threads_drop_oldest(threads) ==
    IF threads = <<>> THEN threads ELSE Tail(threads)

\* cleanup_threads: the tracked threads that are still alive, in order
cleanup_threads(threads) == SelectSeq(threads, is_alive)

\* the values the Add Target form may submit for name and endpoint
TargetNames == { "", "alpha" }
TargetEndpoints == { "", "https://alpha.example/api" }
\* the Test Duration slider runs from 5 to 60; the session uses its default
Durations == { 30 }
\* the Track Carbon Emissions checkbox (default checked) as the session leaves it
TrackCarbonChoices == { TRUE }

Target(name, endpoint) ==
    [ name |-> name, endpoint |-> endpoint, type |-> "LLM",
      api_key |-> "", description |-> "" ]

\* next(t for t in targets if t["name"] == selected_target, None)
FindTarget(selected_target) ==
    LET hits == { k \in 1..Len(targets) : targets[k].name = selected_target }
    IN  IF hits = {} THEN None
        ELSE targets[CHOOSE k \in hits : \A j \in hits : k <= j]

\* the list without its element at position k (list.pop(k - 1))
Pop(list, k) == SubSeq(list, 1, k - 1) \o SubSeq(list, k + 1, Len(list))

\* a rerun of main that renders a page and handles no click
Rerun ==
    /\ ui.pc = "idle"
    /\ active_threads' = cleanup_threads(active_threads)
    /\ UNCHANGED << script, rest, session, targets, carbon_tracker, carbon_tracking_active,
                    ui, locals, draws_left, cancelled >>

\* main: the Clear Error button
ClearError ==
    /\ ui.pc = "idle"
    /\ error_message # None
    /\ error_message' = None
    /\ active_threads' = cleanup_threads(active_threads)
    /\ UNCHANGED << script, rest, running_test, progress, vulnerabilities_found, test_results,
                    targets, carbon_tracker, carbon_tracking_active, ui, locals, draws_left, cancelled >>

\* an Add Target form that requires the name only
AddTargetNameOnly(target_name, target_endpoint) ==
    /\ ui.pc = "idle"
    /\ Len(targets) < MaxTargets
    /\ active_threads' = cleanup_threads(active_threads)
    /\ targets' = IF target_name = ""
                  THEN targets
                  ELSE Append(targets, Target(target_name, target_endpoint))
    /\ UNCHANGED << script, rest, session, carbon_tracker, carbon_tracking_active,
                    ui, locals, draws_left, cancelled >>

\* render_target_management: the Add Target form
AddTarget(target_name, target_endpoint) ==
    /\ ui.pc = "idle"
    /\ Len(targets) < MaxTargets
    /\ active_threads' = cleanup_threads(active_threads)
    /\ targets' = IF target_name = "" \/ target_endpoint = ""
                  THEN targets
                  ELSE Append(targets, Target(target_name, target_endpoint))
    /\ UNCHANGED << script, rest, session, carbon_tracker, carbon_tracking_active,
                    ui, locals, draws_left, cancelled >>

\* render_target_management: the Delete button of the k-th target
DeleteTarget(k) ==
    /\ ui.pc = "idle"
    /\ k \in 1..Len(targets)
    /\ active_threads' = cleanup_threads(active_threads)
    /\ targets' = Pop(targets, k)
    /\ UNCHANGED << script, rest, session, carbon_tracker, carbon_tracking_active,
                    ui, locals, draws_left, cancelled >>

\* render_run_assessment: the Stop Test button
StopTest ==
    /\ ui.pc = "idle"
    /\ targets # <<>>
    /\ running_test
    /\ running_test' = FALSE
    /\ active_threads' = cleanup_threads(active_threads)
    /\ cancelled' = [w \in Workers |->
                        IF is_alive(w) /\ cancelled[w] = "no" THEN "yes" ELSE cancelled[w]]
    /\ UNCHANGED << script, rest, progress, vulnerabilities_found, test_results, error_message,
                    targets, carbon_tracker, carbon_tracking_active, ui, locals, draws_left >>

\* the session's carbon tracker after the Run Assessment handler's tracking lines
TrackCarbon(track_carbon, target) ==
    LET have == IF track_carbon /\ carbon_tracker = None
                THEN initialize_tracker(NewCarbonTracker,
                                        <<"Security Test - ", target.name>>)
                ELSE carbon_tracker
    IN  IF track_carbon THEN start_tracking(have) ELSE have

\* render_run_assessment: the Run Assessment button, up to test_thread.start()
StartAssessment(selected_target, test_duration, track_carbon, test_vectors) ==
    /\ ui.pc = "idle"
    /\ targets # <<>>
    /\ ~running_test
    /\ FindTarget(selected_target) # None
    /\ \A v \in Workers : is_alive(v) => total_steps - i[v] <= MaxOverlap
    /\ \E w \in Workers :
          /\ pc[w] = "idle"
          /\ \A v \in Workers : v < w => pc[v] # "idle"
          /\ pc' = [pc EXCEPT ![w] = "reset_progress"]
          /\ args' = [args EXCEPT ![w] = [ target |-> FindTarget(selected_target),
                                           test_vectors |-> test_vectors,
                                           duration |-> test_duration ]]
          /\ ui' = [pc |-> "started", thread |-> w]
    /\ carbon_tracker' = TrackCarbon(track_carbon, FindTarget(selected_target))
    /\ carbon_tracking_active' = (track_carbon \/ carbon_tracking_active)
    /\ active_threads' = cleanup_threads(active_threads)
    /\ UNCHANGED << script, rest, session, targets, i, results, loaded, raised, ret,
                    draws_left, cancelled >>

\* render_run_assessment: after test_thread.start(): track the thread, set the flag
MarkRunning ==
    /\ ui.pc = "started"
    /\ active_threads' = Append(active_threads, ui.thread)
    /\ running_test' = TRUE
    /\ ui' = [pc |-> "idle", thread |-> 0]
    /\ UNCHANGED << script, rest, progress, vulnerabilities_found, test_results, error_message,
                    targets, carbon_tracker, carbon_tracking_active, locals, draws_left, cancelled >>

\* ------------------------------------------------------------ specifications

\* the session after initialize_session_state, no thread started
InitSession ==
    /\ running_test = FALSE
    /\ progress = 0
    /\ vulnerabilities_found = 0
    /\ test_results = EmptyDict
    /\ error_message = None
    /\ targets = <<>>
    /\ active_threads = <<>>
    /\ carbon_tracker = None
    /\ carbon_tracking_active = FALSE
    /\ ui = [pc |-> "idle", thread |-> 0]
    /\ pc = [w \in Workers |-> "idle"]
    /\ args = [w \in Workers |-> None]
    /\ i = [w \in Workers |-> 0]
    /\ results = [w \in Workers |-> EmptyDict]
    /\ loaded = [w \in Workers |-> 0]
    /\ raised = [w \in Workers |-> None]
    /\ ret = [w \in Workers |-> None]
    /\ cancelled = [w \in Workers |-> "no"]

\* nothing but the assessment is looked at
InitRest ==
    /\ session_state = EmptyDict
    /\ main = None
    /\ shown = None
    /\ retry = None
    /\ upload = None
    /\ citation = None
    /\ carbon = None

Init == script = 2 /\ draws_left = MaxFindings /\ InitSession /\ InitRest

\* a step of worker thread w
Worker(w) ==
    \/ ResetProgress(w)
    \/ ResetVulnerabilities(w)
    \/ SetRunning(w)
    \/ CheckCancelled(w)
    \/ SleepAndStep(w)
    \/ LoadCounter(w)
    \/ StoreCounter(w)
    \/ Finalize(w)
    \/ Except(w)
    \/ Finally(w)

\* a step of the UI thread
User ==
    \/ Rerun
    \/ ClearError
    \/ \E n \in TargetNames, e \in TargetEndpoints :
          Len(targets) < MaxSessionTargets /\ AddTarget(n, e)
    \/ StopTest
    \/ \E n \in TargetNames, d \in Durations, c \in TrackCarbonChoices,
          tv \in get_mock_test_vectors : StartAssessment(n, d, c, tv)
    \/ MarkRunning

Next == User \/ \E w \in Workers : Worker(w)

\* the second script's session: the UI thread and the worker threads it starts
Spec == Init /\ [][Next]_vars

\* ------------------------------------------------ one call of run_mock_test

\* a vector of severity low, which the catalogue lacks
LowVector == TestVector("custom_low", "Custom Low", "owasp", "low")

\* the test_vectors arguments a call is tried with
CallTestVectors ==
    { <<>>, << MockTestVectors[3] >>, << LowVector, MockTestVectors[2] >>, MockTestVectors }
\* the duration arguments a call is tried with
CallDurations == { 5, 60 }

CallTarget == Target("alpha", "https://alpha.example/api")

\* what an earlier run against CallTarget has left in test_results
PreviousResults ==
    CompleteResults(AddFinding(NewResults, MockTestVectors[1], CallTarget),
                    MockTestVectors, CallTarget)

\* run_mock_test has just been called on thread 1, in either script, in a session
\* that an earlier run has been through; the UI may have set the flag already
InitCall ==
    /\ script \in {1, 2}
    /\ draws_left = MaxCallFindings
    /\ running_test \in BOOLEAN
    /\ progress = total_steps
    /\ vulnerabilities_found = 1
    /\ test_results = PreviousResults
    /\ error_message = None
    /\ targets = << CallTarget >>
    /\ active_threads = << 1 >>
    /\ carbon_tracker = None
    /\ carbon_tracking_active = FALSE
    /\ ui = [pc |-> "idle", thread |-> 0]
    /\ pc = [w \in Workers |-> IF w = 1 THEN "reset_progress" ELSE "idle"]
    /\ \E tv \in CallTestVectors, d \in CallDurations :
          args = [w \in Workers |-> IF w = 1
                                    THEN [target |-> CallTarget, test_vectors |-> tv,
                                          duration |-> d]
                                    ELSE None]
    /\ i = [w \in Workers |-> 0]
    /\ results = [w \in Workers |-> EmptyDict]
    /\ loaded = [w \in Workers |-> 0]
    /\ raised = [w \in Workers |-> None]
    /\ ret = [w \in Workers |-> None]
    /\ cancelled = [w \in Workers |-> "no"]
    /\ InitRest

\* the call runs; the flag may be cleared from outside at any time
NextCall == StopTest \/ \E w \in Workers : Worker(w)

SpecCall == InitCall /\ [][NextCall]_vars

\* ------------------------------------------------- the progress observer

\* Panel: what lines 2788-2792 put on the page
ProgressPanel == [ progress |-> progress, vulnerabilities_found |-> vulnerabilities_found ]

\* a run of the script on the Run Assessment page that tests the flag without
\* asking whether a test is running
ObserveAlways ==
    /\ ui.pc = "idle"
    /\ targets # <<>>
    /\ ui' = [ui EXCEPT !.pc = "observing"]
    /\ UNCHANGED << script, rest, session, targets, active_threads, carbon_tracker,
                    carbon_tracking_active, locals, draws_left, cancelled >>

\* a run of the script on the Run Assessment page finds running_test set
\* (line 2786) and enters the branch that shows the progress
Observe ==
    /\ ui.pc = "idle"
    /\ targets # <<>>
    /\ running_test
    /\ ui' = [ui EXCEPT !.pc = "observing"]
    /\ UNCHANGED << script, rest, session, targets, active_threads, carbon_tracker,
                    carbon_tracking_active, locals, draws_left, cancelled >>

\* the branch reads progress and vulnerabilities_found and renders them; the
\* run of the script ends there when Stop Test is not clicked
RenderProgress ==
    /\ ui.pc = "observing"
    /\ shown' = ProgressPanel
    /\ ui' = [ui EXCEPT !.pc = "idle"]
    /\ UNCHANGED << script, session, targets, active_threads, carbon_tracker,
                    carbon_tracking_active, locals, draws_left, cancelled,
                    session_state, main, retry, upload, citation, carbon >>

\* a run of the script finds running_test clear and shows the form instead
ShowForm ==
    /\ ui.pc = "idle"
    /\ targets # <<>>
    /\ ~running_test
    /\ shown # None
    /\ shown' = None
    /\ UNCHANGED << script, session, page, locals, draws_left, cancelled,
                    session_state, main, retry, upload, citation, carbon >>

\* a call of run_mock_test of the second script, and the page watching it
InitObserver ==
    /\ script = 2
    /\ draws_left = MaxFindings
    /\ running_test = TRUE
    /\ progress = total_steps
    /\ vulnerabilities_found = 1
    /\ test_results = PreviousResults
    /\ error_message = None
    /\ targets = << CallTarget >>
    /\ active_threads = << 1 >>
    /\ carbon_tracker = None
    /\ carbon_tracking_active = FALSE
    /\ ui = [pc |-> "idle", thread |-> 0]
    /\ pc = [w \in Workers |-> IF w = 1 THEN "reset_progress" ELSE "idle"]
    /\ \E tv \in get_mock_test_vectors :
          args = [w \in Workers |-> IF w = 1
                                    THEN [target |-> CallTarget, test_vectors |-> tv,
                                          duration |-> 30]
                                    ELSE None]
    /\ i = [w \in Workers |-> 0]
    /\ results = [w \in Workers |-> EmptyDict]
    /\ loaded = [w \in Workers |-> 0]
    /\ raised = [w \in Workers |-> None]
    /\ ret = [w \in Workers |-> None]
    /\ cancelled = [w \in Workers |-> "no"]
    /\ InitRest

NextObserver ==
    \/ Observe
    \/ RenderProgress
    \/ ShowForm
    \/ StopTest
    \/ \E w \in Workers : Worker(w)

SpecObserver == InitObserver /\ [][NextObserver]_vars

\* ------------------------------------------------- the session state store

\* the slots initialize_session_state sets, in its order
Slots ==
    << "targets", "test_results", "running_test", "progress", "vulnerabilities_found",
       "current_theme", "current_page", "active_threads", "error_message",
       "bias_results", "show_bias_results", "carbon_tracking_active",
       "carbon_measurements", "VALIDATION_STRICTNESS", "reports", "insights" >>

\* the default initialize_session_state gives a slot
Default(slot) ==
    CASE slot = "targets" -> <<>>
      [] slot = "test_results" -> EmptyDict
      [] slot = "running_test" -> FALSE
      [] slot = "progress" -> 0
      [] slot = "vulnerabilities_found" -> 0
      [] slot = "current_theme" -> "dark"
      [] slot = "current_page" -> "Dashboard"
      [] slot = "active_threads" -> <<>>
      [] slot = "error_message" -> None
      [] slot = "bias_results" -> EmptyDict
      [] slot = "show_bias_results" -> FALSE
      [] slot = "carbon_tracking_active" -> FALSE
      [] slot = "carbon_measurements" -> <<>>
      [] slot = "VALIDATION_STRICTNESS" -> 2
      [] slot = "reports" -> <<>>
      [] slot = "insights" -> <<>>

\* a value earlier interactions have left in a slot: a session in use, a run
\* in progress
Populated(slot) ==
    CASE slot = "targets" -> << CallTarget >>
      [] slot = "test_results" -> PreviousResults
      [] slot = "running_test" -> TRUE
      [] slot = "progress" -> 37
      [] slot = "vulnerabilities_found" -> 1
      [] slot = "current_theme" -> "light"
      [] slot = "current_page" -> "Run Assessment"
      [] slot = "active_threads" -> << 1 >>
      [] slot = "error_message" -> << "Failed to navigate to ", "Settings" >>
      [] slot = "bias_results" -> [ max_disparity |-> 1 ]
      [] slot = "show_bias_results" -> TRUE
      [] slot = "carbon_tracking_active" -> TRUE
      [] slot = "carbon_measurements" -> << 1 >>
      [] slot = "VALIDATION_STRICTNESS" -> 3
      [] slot = "reports" -> << [ title |-> "report" ] >>
      [] slot = "insights" -> << [ insight |-> "insight" ] >>

\* st.session_state.key = value
Assign(state, key, value) ==
    [ k \in DOMAIN state \cup {key} |-> IF k = key THEN value ELSE state[k] ]

\* the first n slots gone through: if slot not in st.session_state, set its default
RECURSIVE InitSlots(_, _)
InitSlots(state, n) ==
    IF n = 0 THEN state
    ELSE LET before == InitSlots(state, n - 1)
         IN  IF Slots[n] \in DOMAIN before THEN before
             ELSE Assign(before, Slots[n], Default(Slots[n]))

\* display_error: st.session_state.error_message = message
display_error(state, message) == Assign(state, "error_message", message)

\* the message of initialize_session_state's except clause
InitFailureMessage(slot) == << "Failed to initialize application state: ", slot >>

\* an initialisation that sets the run-control slots without the 'not in' test
initialize_session_state_resetting(state, fail) ==
    LET set == IF fail = 0 THEN InitSlots(state, Len(Slots))
               ELSE display_error(InitSlots(state, fail - 1), InitFailureMessage(Slots[fail]))
    IN  IF fail = 0 \/ fail > 4
        THEN Assign(Assign(set, "running_test", FALSE), "progress", 0)
        ELSE set

\* initialize_session_state; fail = 0: nothing throws, fail = n: setting the
\* n-th slot throws
initialize_session_state(state, fail) ==
    IF fail = 0 THEN InitSlots(state, Len(Slots))
    ELSE display_error(InitSlots(state, fail - 1), InitFailureMessage(Slots[fail]))

\* ------------------------------------------------------------------- main

\* a routing chain that has lost its last branch, Settings
RoutedPagesWithoutSettings ==
    { "Dashboard", "Target Management", "Test Configuration", "Run Assessment",
      "Results Analyzer", "Ethical AI Testing", "Environmental Impact", "Bias Testing",
      "Bias Comparison", "Bias Labs Integration", "HELM Evaluation",
      "Multi-Format Import", "High-Volume Testing", "Sustainability Dashboard",
      "Report Generator", "Citation Tool", "Insight Assistant", "Knowledge Base" }

\* the page names main's routing chain has a branch for
RoutedPages ==
    { "Dashboard", "Target Management", "Test Configuration", "Run Assessment",
      "Results Analyzer", "Ethical AI Testing", "Environmental Impact", "Bias Testing",
      "Bias Comparison", "Bias Labs Integration", "HELM Evaluation",
      "Multi-Format Import", "High-Volume Testing", "Sustainability Dashboard",
      "Report Generator", "Citation Tool", "Insight Assistant", "Knowledge Base",
      "Settings" }

\* the pages whose renderer the source defines
RenderedPages ==
    { "Dashboard", "Target Management", "Test Configuration", "Run Assessment",
      "Results Analyzer", "Report Generator", "Citation Tool", "Insight Assistant" }

\* the slots a renderer reads with its default widget values, outside any
\* 'in st.session_state' test
Reads(page_name) ==
    CASE page_name = "Dashboard" -> { "targets", "test_results", "running_test" }
      [] page_name = "Target Management" -> { "targets" }
      [] page_name = "Run Assessment" -> { "targets" }
      [] page_name = "Results Analyzer" -> { "test_results" }
      [] page_name = "Report Generator" -> { "targets", "test_results", "bias_results" }
      [] OTHER -> {}

\* the slots sidebar_navigation reads: current_page for the buttons, the others
\* for the status lines below them
SidebarStatusReads == { "running_test", "targets", "active_threads" }

\* navigation_categories: the page names sidebar_navigation makes buttons of
SidebarPages ==
    { "Dashboard", "Target Management", "Test Configuration", "Run Assessment",
      "Results Analyzer",
      "Ethical AI Testing", "Bias Testing", "Bias Comparison", "HELM Evaluation",
      "Environmental Impact", "Sustainability Dashboard",
      "Report Generator", "Citation Tool", "Insight Assistant",
      "Multi-Format Import", "High-Volume Testing", "Knowledge Base",
      "Settings" }

\* the sidebar buttons the user of the session clicks
NavChoices == SidebarPages

\* cleanup_threads on the store: only if the slot is there
CleanedUp(state) ==
    IF "active_threads" \in DOMAIN state
    THEN Assign(state, "active_threads", cleanup_threads(state.active_threads))
    ELSE state

\* what a run of the script has put on the screen; page "": no page body
Screen(sidebar, body, page_name) ==
    [ pc |-> "start", failed |-> 0, sidebar |-> sidebar, body |-> body, page |-> page_name ]

\* a run of the script cut short by st.rerun(): the next run draws the screen
Rerunning == Screen("none", "none", "")

\* main, first statement: initialize_session_state()
InitializeSessionState(fail) ==
    /\ main # None /\ main.pc = "start"
    /\ fail # 0 => Slots[fail] \notin DOMAIN session_state
    /\ session_state' = initialize_session_state(session_state, fail)
    /\ main' = [main EXCEPT !.pc = "initialized", !.failed = fail]
    /\ UNCHANGED << script, session, page, locals, draws_left, cancelled,
                    shown, retry, upload, citation, carbon >>

\* a page renderer: its try body reads its slots, its except clause shows the
\* error card
RenderPage(state, page_name) ==
    IF Reads(page_name) \subseteq DOMAIN state THEN "page" ELSE "placeholder"

\* a routing chain that sends the session back to the Dashboard when the
\* renderer of the current page has failed
RouteHome(state, sidebar) ==
    LET current_page == state.current_page
    IN  IF current_page \in RenderedPages
        THEN << IF RenderPage(state, current_page) = "placeholder"
                THEN Assign(state, "current_page", "Dashboard") ELSE state,
                Screen(sidebar, RenderPage(state, current_page), current_page) >>
        ELSE IF current_page \in RoutedPages
        THEN << state, Screen(sidebar, "critical", "") >>
        ELSE << Assign(state, "current_page", "Dashboard"),
                Screen(sidebar, RenderPage(state, "Dashboard"), "Dashboard") >>

\* main's routing chain on a store that has current_page
Route(state, sidebar) ==
    LET current_page == state.current_page
    IN  IF current_page \in RenderedPages
        THEN << state, Screen(sidebar, RenderPage(state, current_page), current_page) >>
        ELSE IF current_page \in RoutedPages
        THEN << state, Screen(sidebar, "critical", "") >>
        ELSE << Assign(state, "current_page", "Dashboard"),
                Screen(sidebar, RenderPage(state, "Dashboard"), "Dashboard") >>

\* main after initialize_session_state, with the click this run of the script
\* handles: "none", "clear" (Clear Error) or the name of a sidebar button
MainBody(state, click) ==
    LET cleaned == CleanedUp(state)
    IN  IF "error_message" \notin DOMAIN cleaned
        THEN << cleaned, Screen("none", "critical", "") >>
        ELSE IF click = "clear"
        THEN << Assign(cleaned, "error_message", None), Rerunning >>
        ELSE IF "current_page" \notin DOMAIN cleaned
        THEN << cleaned, Screen("error", "critical", "") >>
        ELSE IF click # "none"
        THEN << Assign(cleaned, "current_page", click), Rerunning >>
        ELSE Route(cleaned,
                   IF SidebarStatusReads \subseteq DOMAIN cleaned
                   THEN "buttons" ELSE "buttons+error")

\* the clicks the screen of the last run offers
Offered(state, click) ==
    \/ click = "none"
    \/ click = "clear" /\ main.body # "none" /\ "error_message" \in DOMAIN state
          /\ state.error_message # None
    \/ click \in NavChoices /\ main.sidebar \in { "buttons", "buttons+error" }

\* main, the rest of it
Main(click) ==
    /\ main # None /\ main.pc = "initialized"
    /\ Offered(session_state, click)
    /\ LET out == MainBody(session_state, click)
       IN  session_state' = out[1] /\ main' = out[2]
    /\ UNCHANGED << script, session, page, locals, draws_left, cancelled,
                    shown, retry, upload, citation, carbon >>

\* the stores a run of the script may find: the first n slots set, to their
\* defaults or by earlier interactions
Store(n, populated) ==
    [ k \in { Slots[j] : j \in 1..n } |-> IF populated THEN Populated(k) ELSE Default(k) ]

InitMain ==
    /\ script = 2 /\ draws_left = 0 /\ InitSession
    /\ \E n \in 0..Len(Slots), populated \in BOOLEAN : session_state = Store(n, populated)
    /\ main = Rerunning
    /\ shown = None /\ retry = None /\ upload = None /\ citation = None
    /\ carbon = None

NextMain ==
    \/ \E fail \in 0..Len(Slots) : InitializeSessionState(fail)
    \/ \E click \in { "none", "clear" } \cup NavChoices : Main(click)

\* the runs of main over a session, one after the other
SpecMain == InitMain /\ [][NextMain]_vars

\* values of current_page that no branch of the routing chain names
OtherPageNames == { "", "Home", "dashboard" }

\* a session whose slots are all set, current_page to any name
InitRouting ==
    /\ script = 2 /\ draws_left = 0 /\ InitSession
    /\ \E populated \in BOOLEAN, page_name \in RoutedPages \cup OtherPageNames :
          session_state = Assign(Store(Len(Slots), populated), "current_page", page_name)
    /\ main = Rerunning
    /\ shown = None /\ retry = None /\ upload = None /\ citation = None
    /\ carbon = None

\* the runs of main from any value of current_page
SpecRouting == InitRouting /\ [][NextMain]_vars

\* ---------------------------------------------------------- retry_request

\* what one requests.head / requests.get call does: it answers with a status
\* code, raises a requests.RequestException, or raises something else
Outcomes == { "200", "404", "503", "RequestException", "OtherException" }

\* the response object of the attempt numbered attempt (from 0)
Response(status_code, attempt) == [ status_code |-> status_code, attempt |-> attempt ]

\* a call retry_request(url, method, retries) at its first statement
RetryCall(method, retries) ==
    [ pc |-> "loop", method |-> method, retries |-> retries, attempt |-> 0,
      outcomes |-> <<>>, slept |-> <<>>, ret |-> None, raised |-> FALSE ]

\* time.sleep(attempt + 1): a wait that grows by one second per attempt
RetrySleepLinear ==
    /\ retry # None /\ retry.pc = "sleep"
    /\ retry' = [retry EXCEPT !.slept = Append(@, retry.attempt + 1),
                              !.attempt = @ + 1, !.pc = "loop"]
    /\ UNCHANGED << script, session, page, locals, draws_left, cancelled,
                    session_state, main, shown, upload, citation, carbon >>

\* the except clause: time.sleep(2 ** attempt), then the next iteration
RetrySleep ==
    /\ retry # None /\ retry.pc = "sleep"
    /\ retry' = [retry EXCEPT !.slept = Append(@, 2 ^ retry.attempt),
                              !.attempt = @ + 1, !.pc = "loop"]
    /\ UNCHANGED << script, session, page, locals, draws_left, cancelled,
                    session_state, main, shown, upload, citation, carbon >>

\* one iteration of 'for attempt in range(retries)' up to its return, its
\* except clause or its end; when the range is used up, return None
RetryRequest(outcome) ==
    /\ retry # None /\ retry.pc = "loop"
    /\ retry' =
          IF retry.attempt >= retry.retries
          THEN [retry EXCEPT !.pc = "done", !.ret = None]
          ELSE IF retry.method \notin { "head", "get" }
          THEN [retry EXCEPT !.pc = "done", !.ret = None]
          ELSE LET made == [retry EXCEPT !.outcomes = Append(@, outcome)]
               IN  CASE outcome = "200" ->
                          [made EXCEPT !.pc = "done",
                                       !.ret = Response("200", retry.attempt)]
                     [] outcome = "RequestException" -> [made EXCEPT !.pc = "sleep"]
                     [] outcome = "OtherException" ->
                          [made EXCEPT !.pc = "done", !.raised = TRUE]
                     [] OTHER -> [made EXCEPT !.attempt = @ + 1]
    /\ UNCHANGED << script, session, page, locals, draws_left, cancelled,
                    session_state, main, shown, upload, citation, carbon >>

InitRetry ==
    /\ script = 2 /\ draws_left = 0 /\ InitSession
    /\ session_state = EmptyDict /\ main = None /\ shown = None /\ upload = None
    /\ citation = None /\ carbon = None
    /\ \E method \in { "head", "get", "post" }, retries \in 0..MaxRetries :
          retry = RetryCall(method, retries)

NextRetry ==
    \/ \E outcome \in Outcomes : RetryRequest(outcome)
    \/ RetrySleep

\* one call of retry_request
SpecRetry == InitRetry /\ [][NextRetry]_vars

\* ------------------------------------------- handle_multiple_file_formats

\* the pieces file names are made of; a name is the sequence of its pieces
\* between the dots: << "data", "JSON" >> is data.JSON, << "csv" >> is csv
NameParts ==
    { "data", "", "json", "JSON", "csv", "xlsx", "xls", "pdf", "xml", "yaml", "Yml",
      "yml", "txt", "TXT" }

\* str.lower() on the pieces
Lower(part) ==
    CASE part = "JSON" -> "json"
      [] part = "Yml" -> "yml"
      [] part = "TXT" -> "txt"
      [] OTHER -> part

\* the branches of the if/elif chain
SupportedFormats == { "json", "csv", "xlsx", "xls", "pdf", "xml", "yaml", "yml" }

\* what the parser of a supported format does with the content of the file
ParseOutcomes == { "parsed", "throws", "import fails" }

\* an uploaded file; name None: an object without a usable name
UploadedFiles ==
    [ name : { None } \cup UNION { [ 1..n -> NameParts ] : n \in 1..MaxParts },
      content : ParseOutcomes ]

\* uploaded_file.name.split('.')[-1], case kept
FileExtensionCased(name) ==
    name[Len(name)]

\* uploaded_file.name.split('.')[-1].lower()
FileExtension(name) ==
    Lower(name[Len(name)])

\* what the branch of a supported format returns when nothing throws
Parsed(file_extension) ==
    IF file_extension = "pdf" THEN [ text |-> "text" ]
    ELSE [ parsed |-> file_extension ]

\* the except clause: {"error": f"Failed to process file: {str(e)}"}
FailedToProcess == [ error |-> << "Failed to process file: ", "e" >> ]

\* the try body: how it ends, << "return", value >> or << "raise", exception >>
TryBody(uploaded_file) ==
    IF uploaded_file.name = None
    THEN << "raise", "AttributeError" >>
    ELSE LET file_extension == FileExtension(uploaded_file.name)
         IN  IF file_extension \in SupportedFormats
             THEN CASE uploaded_file.content = "parsed" ->
                          << "return", Parsed(file_extension) >>
                    [] uploaded_file.content = "import fails" ->
                          << "raise", "ImportError" >>
                    [] OTHER -> << "raise", "ValueError" >>
             ELSE << "return",
                     [ error |-> << "Unsupported file format: ", file_extension >> ] >>

\* how a call of handle_multiple_file_formats ends: except Exception turns
\* whatever the try body raises into a returned error value
handle_multiple_file_formats(uploaded_file) ==
    LET body == TryBody(uploaded_file)
    IN  IF body[1] = "raise" THEN << "return", FailedToProcess >> ELSE body

\* a call of handle_multiple_file_formats on the file of the upload widget
HandleUploadedFile ==
    /\ upload # None /\ upload.pc = "call"
    /\ LET end == handle_multiple_file_formats(upload.file)
       IN  upload' = [upload EXCEPT !.pc = "done",
                                    !.raised = (end[1] = "raise"),
                                    !.ret = IF end[1] = "return" THEN end[2] ELSE None]
    /\ UNCHANGED << script, session, page, locals, draws_left, cancelled,
                    session_state, main, shown, retry, citation, carbon >>

InitUpload ==
    /\ script = 2 /\ draws_left = 0 /\ InitSession
    /\ session_state = EmptyDict /\ main = None /\ shown = None /\ retry = None
    /\ citation = None /\ carbon = None
    /\ \E file \in UploadedFiles :
          upload = [ pc |-> "call", file |-> file, ret |-> None, raised |-> FALSE ]

NextUpload == HandleUploadedFile

\* one call of handle_multiple_file_formats on each file
SpecUpload == InitUpload /\ [][NextUpload]_vars

\* ------------------------------------------------------ format_authors_apa

\* the forms an entry of the authors list of an article takes: 'given' with
\* one name, with two names, empty, and an entry without 'family'
AuthorShapes == { "one given", "two given", "no given", "no family" }

\* the k-th author of an article, a dict with the keys family and given;
\* a key that is absent reads as '' through dict.get
Author(k, shape) ==
    [ family |-> IF shape = "no family" THEN "" ELSE "Last" \o ToString(k),
      given |-> CASE shape = "two given" -> << "First", "Middle" >>
                  [] shape = "no given" -> <<>>
                  [] OTHER -> << "First" >> ]

\* an article's authors: odd and even positions take the two shapes
Authors(n, odd, even) ==
    [ k \in 1..n |-> Author(k, IF k % 2 = 1 THEN odd ELSE even) ]

\* name[0] of a given name
FirstLetter(name) == IF name = "First" THEN "F" ELSE "M"

\* ''.join([name[0] + '.' for name in given.split()])
RECURSIVE Initials(_)
Initials(given) ==
    IF given = <<>> THEN ""
    ELSE FirstLetter(Head(given)) \o "." \o Initials(Tail(given))

\* separator.join(list)
RECURSIVE Join(_, _)
Join(list, separator) ==
    IF list = <<>> THEN ""
    ELSE IF Len(list) = 1 THEN list[1]
    ELSE list[1] \o separator \o Join(Tail(list), separator)

\* the list built by the for loop: f"{last_name}, {initials}" per author
AuthorsList(authors) ==
    [ k \in 1..Len(authors) |-> authors[k].family \o ", " \o Initials(authors[k].given) ]

\* the ellipsis form taken from twenty authors on instead of above twenty
format_authors_apa_from_twenty(authors) ==
    LET authors_list == AuthorsList(authors)
        n == Len(authors_list)
    IN  IF n = 0 THEN "Anonymous"
        ELSE IF n = 1 THEN authors_list[1]
        ELSE IF n < 20
        THEN Join(SubSeq(authors_list, 1, n - 1), ", ") \o ", & " \o authors_list[n]
        ELSE Join(SubSeq(authors_list, 1, 19), ", ") \o ", ... " \o authors_list[n]

format_authors_apa(authors) ==
    LET authors_list == AuthorsList(authors)
        n == Len(authors_list)
    IN  IF n = 0 THEN "Anonymous"
        ELSE IF n = 1 THEN authors_list[1]
        ELSE IF n <= 20
        THEN Join(SubSeq(authors_list, 1, n - 1), ", ") \o ", & " \o authors_list[n]
        ELSE Join(SubSeq(authors_list, 1, 19), ", ") \o ", ... " \o authors_list[n]

\* a call format_authors_apa(authors)
FormatAuthors ==
    /\ citation # None /\ citation.pc = "call" /\ citation.fn = "format_authors_apa"
    /\ citation' = [citation EXCEPT !.pc = "done",
                                    !.ret = format_authors_apa(citation.arg)]
    /\ UNCHANGED << script, session, page, locals, draws_left, cancelled,
                    session_state, main, shown, retry, upload, carbon >>

InitAuthors ==
    /\ script = 2 /\ draws_left = 0 /\ InitSession
    /\ session_state = EmptyDict /\ main = None /\ shown = None
    /\ retry = None /\ upload = None /\ carbon = None
    /\ \E n \in 0..MaxAuthors, odd \in AuthorShapes, even \in AuthorShapes :
          citation = [ fn |-> "format_authors_apa", pc |-> "call",
                       arg |-> Authors(n, odd, even), ret |-> None ]

NextAuthors == FormatAuthors

\* one call of format_authors_apa on each authors list
SpecAuthors == InitAuthors /\ [][NextAuthors]_vars

\* ----------------------------------------------------- is_valid_doi_format

\* a string is the sequence of its characters
Digits == { "0", "1", "2", "3", "4", "5", "6", "7", "8", "9" }
Letters ==
    { "a", "b", "c", "d", "e", "f", "g", "h", "i", "j", "k", "l", "m", "n", "o", "p",
      "q", "r", "s", "t", "u", "v", "w", "x", "y", "z",
      "A", "B", "C", "D", "E", "F", "G", "H", "I", "J", "K", "L", "M", "N", "O", "P",
      "Q", "R", "S", "T", "U", "V", "W", "X", "Y", "Z" }

\* the class [-._;()/:A-Z0-9] under re.IGNORECASE
SuffixClass == { "-", ".", "_", ";", "(", ")", "/", ":" } \cup Letters \cup Digits

\* what a regex '.' matches: any character but the newline
AnyCharacter(c) == c # "\n"

\* the candidates is_valid_doi_format is called on, put together from a
\* prefix, a run of digits, a separator and a suffix
DoiPrefixes ==
    { << "1", "0", "." >>, << "1", "0", "x" >>, << "1", "0", "/" >>, << "1", "0" >>,
      << "1", "1", "." >>, << "a", "b", "c" >>, << " ", "1", "0", "." >>, <<>> }
DoiDigits ==
    { [ k \in 1..n |-> IF k = 1 THEN "1" ELSE "0" ] : n \in 0..MaxDoiDigits }
DoiSeparators == { << "/" >>, <<>>, << ":" >> }
DoiSuffixes ==
    { <<>>, << "x", "y", "z", "1", "2", "3" >>, << "1", "2", "3" >>, << "A", "-", "(", ")" >>,
      << "a", " ", "b" >>, << "j", ".", "x", "\n" >>, << "a", "/", "b", "#" >> }
DoiCandidates ==
    { p \o d \o sep \o suffix :
         p \in DoiPrefixes, d \in DoiDigits, sep \in DoiSeparators, suffix \in DoiSuffixes }

\* s[from..] is [-._;()/:A-Z0-9]+$ : one or more characters of the class up
\* to the end of the string, or up to a newline that ends the string
MatchesSuffix(doi, from) ==
    \E last \in from..Len(doi) :
       /\ \A k \in from..last : doi[k] \in SuffixClass
       /\ \/ last = Len(doi)
          \/ last = Len(doi) - 1 /\ doi[Len(doi)] = "\n"

\* re.match(r'^10.\d{4,9}/[-._;()/:A-Z0-9]+$', doi, re.IGNORECASE) is not None
is_valid_doi_format(doi) ==
    /\ Len(doi) >= 3
    /\ doi[1] = "1" /\ doi[2] = "0" /\ AnyCharacter(doi[3])
    /\ \E digits \in 4..9 :
          /\ Len(doi) >= 3 + digits + 1
          /\ \A k \in 4..(3 + digits) : doi[k] \in Digits
          /\ doi[3 + digits + 1] = "/"
          /\ MatchesSuffix(doi, 3 + digits + 2)

\* a call is_valid_doi_format(doi)
ValidateDoiFormat ==
    /\ citation # None /\ citation.pc = "call" /\ citation.fn = "is_valid_doi_format"
    /\ citation' = [citation EXCEPT !.pc = "done",
                                    !.ret = is_valid_doi_format(citation.arg)]
    /\ UNCHANGED << script, session, page, locals, draws_left, cancelled,
                    session_state, main, shown, retry, upload, carbon >>

InitDoi ==
    /\ script = 2 /\ draws_left = 0 /\ InitSession
    /\ session_state = EmptyDict /\ main = None /\ shown = None
    /\ retry = None /\ upload = None /\ carbon = None
    /\ \E doi \in DoiCandidates :
          citation = [ fn |-> "is_valid_doi_format", pc |-> "call",
                       arg |-> doi, ret |-> None ]

NextDoi == ValidateDoiFormat

\* one call of is_valid_doi_format on each candidate
SpecDoi == InitDoi /\ [][NextDoi]_vars

\* ------------------------------------------------------ target management

\* what the user types into the Add Target form on the Target Management page
FormNames == TargetNames \cup { "beta" }
FormEndpoints == TargetEndpoints \cup { "https://beta.example/api" }

\* the Target Management and Run Assessment pages, up to the start of a run
NextTargets ==
    \/ \E n \in FormNames, e \in FormEndpoints : AddTarget(n, e)
    \/ \E k \in 1..MaxTargets : DeleteTarget(k)
    \/ \E n \in FormNames, d \in Durations, c \in TrackCarbonChoices,
          tv \in get_mock_test_vectors : StartAssessment(n, d, c, tv)
    \/ MarkRunning
    \/ StopTest

SpecTargets == Init /\ [][NextTargets]_vars

\* ---------------------------------------------------- CarbonImpactTracker

\* random.uniform(0.001, 0.1), in thousandths of a kg CO2eq
EmissionValues == { 1, 50, 100 }

\* the names a tracker is initialised with
ProjectNames == { << "Security Test - ", "alpha" >>, << "Security Test - ", "beta" >> }

\* tracker.initialize_tracker(project_name)
CallInitializeTracker(project_name) ==
    /\ carbon_tracker # None
    /\ carbon_tracker' = initialize_tracker(carbon_tracker, project_name)
    /\ carbon' = [ method |-> "initialize_tracker", returns |-> TRUE ]
    /\ UNCHANGED << script, session, targets, active_threads, carbon_tracking_active, ui,
                    locals, draws_left, cancelled,
                    session_state, main, shown, retry, upload, citation >>

\* tracker.start_tracking()
CallStartTracking ==
    /\ carbon_tracker # None
    /\ carbon_tracker' = start_tracking(carbon_tracker)
    /\ carbon' = [ method |-> "start_tracking",
                   returns |-> start_tracking_returns(carbon_tracker) ]
    /\ UNCHANGED << script, session, targets, active_threads, carbon_tracking_active, ui,
                    locals, draws_left, cancelled,
                    session_state, main, shown, retry, upload, citation >>

\* tracker.stop_tracking()
CallStopTracking(emissions) ==
    /\ carbon_tracker # None
    /\ Len(carbon_tracker.measurements) < MaxMeasurements
    /\ carbon_tracker' = stop_tracking(carbon_tracker, emissions)
    /\ carbon' = [ method |-> "stop_tracking",
                   returns |-> stop_tracking_returns(carbon_tracker, emissions) ]
    /\ UNCHANGED << script, session, targets, active_threads, carbon_tracking_active, ui,
                    locals, draws_left, cancelled,
                    session_state, main, shown, retry, upload, citation >>

\* tracker = CarbonImpactTracker()
InitTracker ==
    /\ script = 2 /\ draws_left = 0
    /\ running_test = FALSE /\ progress = 0 /\ vulnerabilities_found = 0
    /\ test_results = EmptyDict /\ error_message = None
    /\ targets = <<>> /\ active_threads = <<>> /\ carbon_tracking_active = FALSE
    /\ ui = [pc |-> "idle", thread |-> 0]
    /\ pc = [w \in Workers |-> "idle"] /\ args = [w \in Workers |-> None]
    /\ i = [w \in Workers |-> 0] /\ results = [w \in Workers |-> EmptyDict]
    /\ loaded = [w \in Workers |-> 0] /\ raised = [w \in Workers |-> None]
    /\ ret = [w \in Workers |-> None] /\ cancelled = [w \in Workers |-> "no"]
    /\ session_state = EmptyDict /\ main = None /\ shown = None
    /\ retry = None /\ upload = None /\ citation = None
    /\ carbon_tracker = NewCarbonTracker
    /\ carbon = [ method |-> "__init__", returns |-> None ]

NextTracker ==
    \/ \E project_name \in ProjectNames : CallInitializeTracker(project_name)
    \/ CallStartTracking
    \/ \E emissions \in EmissionValues : CallStopTracking(emissions)

\* the calls made on one CarbonImpactTracker
SpecTracker == InitTracker /\ [][NextTracker]_vars

\* ------------------------------------------------------------------ claims

\* worker w returns in this step
Returns(w) == pc[w] # "done" /\ pc'[w] = "done"

\* the value ret[w] is the error payload of the except clause
IsErrorPayload(v) == "error" \in DOMAIN v

\* the value v is a results dict as run_mock_test stores it
IsRunResult(v) == "vulnerabilities" \in DOMAIN v

\* C1: whenever run_mock_test returns, on any exit path (all 100 steps done,
\* early exit after cancellation, or an exception), running_test is false at
\* the moment of return.  Checked over both scripts' run_mock_test.
C1_RunningFalseAtReturn ==
    [][\A w \in Workers : Returns(w) => ~running_test']_vars

\* C2: no interleaving of the UI's write running_test = True, done after
\* thread.start(), with the worker's writes leaves the session in the running
\* state with no live worker: whenever running_test is true, a worker thread
\* is alive or the UI thread is still inside the Run Assessment handler.
C2_RunningHasLiveWorker ==
    running_test => (ui.pc = "started" \/ \E w \in Workers : is_alive(w))

\* worker w moves in this step
Moves(w) == pc'[w] # pc[w]

\* C3: once Stop Test has cleared the flag during a run, the worker never sets
\* it back to true, takes at most one further loop step, and ends by storing a
\* RunResult that holds every finding it has recorded.
C3_CancelledRunWindsDown ==
    [][\A w \in Workers : cancelled[w] # "no" /\ Moves(w) =>
          /\ ~(~running_test /\ running_test')
          /\ ~(cancelled[w] = "stepped" /\ pc[w] = "sleep")
          /\ pc'[w] # "except"
          /\ pc[w] = "finalize" =>
                /\ IsRunResult(test_results')
                /\ test_results'.vulnerabilities = results[w].vulnerabilities]_vars

\* C4: running_test goes from true to false once per run, and from false to
\* true only with progress and vulnerabilities_found reset to 0, so that a true
\* flag never stands next to the counters of the previous run.
C4_FlagFollowsReset ==
    [][/\ ~running_test /\ running_test' =>
             progress' = 0 /\ vulnerabilities_found' = 0
       /\ running_test /\ ~running_test' =>
             \A w \in Workers : is_alive(w) => cancelled[w] = "no"]_vars

\* C5: while running_test is true, progress never decreases from one
\* observation to the next.
C5_ProgressMonotone ==
    [][running_test /\ running_test' => progress' >= progress]_vars

\* no run is in progress: every worker has returned and the UI thread is not
\* inside the Run Assessment handler
Quiescent == ui.pc = "idle" /\ \A w \in Workers : ~is_alive(w)

\* C6: at every observation after a run has completed (taken here between
\* runs, when no worker is alive), vulnerabilities_found equals the number of
\* findings of the RunResult that is live in test_results.
C6_CounterMatchesResult ==
    Quiescent /\ IsRunResult(test_results) =>
        vulnerabilities_found = Len(test_results.vulnerabilities)

\* the weight the specification gives to a severity
SpecWeight(severity) ==
    CASE severity = "low" -> 1
      [] severity = "medium" -> 2
      [] severity = "high" -> 3
      [] severity = "critical" -> 5

RECURSIVE SpecWeightSum(_)
SpecWeightSum(vulnerabilities) ==
    IF vulnerabilities = <<>> THEN 0
    ELSE SpecWeight(Head(vulnerabilities).severity)
            + SpecWeightSum(Tail(vulnerabilities))

\* C7: every RunResult run_mock_test stores, for a completed or a cancelled
\* run, has summary.risk_score equal to the sum of the severity weights
\* (low 1, medium 2, high 3, critical 5) of the findings in its vulnerabilities.
C7_RiskScoreIsWeightSum ==
    [][\A w \in Workers : pc[w] = "finalize" /\ Moves(w) =>
          /\ IsRunResult(test_results') /\ ret'[w] = test_results'
          /\ test_results'.summary.risk_score
                = SpecWeightSum(test_results'.vulnerabilities)]_vars

\* a cancelled run has stored a RunResult with two findings of different severity
C7_Witness ==
    /\ script = 2 /\ pc[1] = "finally" /\ cancelled[1] # "no"
    /\ test_results = ret[1]
    /\ Len(test_results.vulnerabilities) = 2
    /\ test_results.vulnerabilities[1].severity = "low"
    /\ test_results.vulnerabilities[2].severity = "medium"
    /\ test_results.summary.risk_score = 3

\* the number of loop steps worker w has carried out (its sleep and its
\* progress write done), counting the one whose finding it is still recording
StepsDone(w) == IF pc[w] \in {"load", "store"} THEN i[w] + 1 ELSE i[w]

\* C8: a run that is not cancelled carries out exactly total_steps = 100 steps
\* for any duration; the k-th step leaves progress at k/100; progress stays
\* within [0, 1]; and progress is 1 when an uncancelled run finishes.
C8_HundredSteps ==
    [][/\ 0 <= progress' /\ progress' <= total_steps
       /\ \A w \in Workers :
            /\ pc[w] = "sleep" /\ Moves(w) /\ pc'[w] # "except" =>
                  progress' = StepsDone(w)' /\ StepsDone(w)' = StepsDone(w) + 1
            /\ pc[w] = "finalize" /\ Moves(w) /\ cancelled[w] = "no" =>
                  StepsDone(w) = total_steps /\ progress' = total_steps]_vars

\* test_results holds no finding
NoFindings(v) == IsEmptyDict(v) \/ v.vulnerabilities = <<>>

\* worker w is started in this step
Starts(w) == pc[w] = "idle" /\ pc'[w] # "idle"

\* C9 as stated: when a new run starts the previous RunResult is replaced, so
\* that from the start of the run on test_results exposes no finding of an
\* earlier run.
C9_ReplacedAtStart ==
    [][\A w \in Workers : Starts(w) => NoFindings(test_results')]_vars

\* C9, amended: test_results is replaced only when a run stores its RunResult
\* at its end, and then wholesale, by the findings of that run alone, which
\* began from an empty list; starting a run, running it, cancelling it or a
\* run that fails leave test_results as it is.  test_results is one slot, so
\* one RunResult is live at a time.
C9_ReplacedAtStore ==
    [][/\ test_results' # test_results =>
             \E w \in Workers : pc[w] = "finalize" /\ Moves(w)
       /\ \A w \in Workers :
            /\ pc[w] = "set_running" /\ Moves(w) => results'[w].vulnerabilities = <<>>
            /\ pc[w] = "finalize" /\ Moves(w) =>
                  /\ IsRunResult(test_results')
                  /\ test_results'.vulnerabilities = results[w].vulnerabilities]_vars

\* a second run has stored its RunResult, without findings, over the first
\* run's RunResult, which had one
C9_Witness ==
    /\ pc[1] = "done" /\ IsRunResult(ret[1]) /\ Len(ret[1].vulnerabilities) = 1
    /\ pc[2] = "finally" /\ test_results = ret[2]
    /\ test_results.vulnerabilities = <<>>

\* C10: an exception raised inside run_mock_test is caught: the call returns a
\* payload with error = true, the message, the stack trace text and a
\* timestamp, error_message is set, running_test is false at the return, and
\* test_results is what it was before the run.
C10_ExceptionHandled ==
    [][\A w \in Workers : raised[w] # None /\ Returns(w) =>
          /\ DOMAIN ret'[w] = {"error", "error_message", "traceback", "timestamp"}
          /\ ret'[w].error = TRUE
          /\ ret'[w].error_message = raised[w]
          /\ error_message' = <<"Test execution failed: ">> \o raised[w]
          /\ ~running_test'
          /\ test_results' = PreviousResults]_vars

\* C11: on normal and on early-exit completion the stored RunResult has
\* summary.total_tests = 10 * len(test_vectors), whatever the number of steps
\* carried out, and carries the target's name and a timestamp; with a single
\* test vector total_tests is 10.
C11_TotalTests ==
    [][\A w \in Workers : pc[w] = "finalize" /\ Moves(w) =>
          /\ test_results'.summary.total_tests = 10 * Len(args[w].test_vectors)
          /\ Len(args[w].test_vectors) = 1 => test_results'.summary.total_tests = 10
          /\ test_results'.target = args[w].target.name
          /\ "timestamp" \in DOMAIN test_results' /\ test_results'.timestamp = Now]_vars

\* a run over a single test vector, cancelled after its first step, has stored
\* its RunResult with total_tests = 10
C11_Witness ==
    /\ script = 2 /\ pc[1] = "finally" /\ cancelled[1] = "stepped" /\ i[1] = 1
    /\ Len(args[1].test_vectors) = 1
    /\ test_results = ret[1] /\ test_results.summary.total_tests = 10
    /\ test_results.target = "alpha"

\* the slot names
SlotSet == { Slots[n] : n \in 1..Len(Slots) }

\* this step is initialize_session_state
Initializes == main # None /\ main.pc = "start" /\ main'.pc = "initialized"

\* C12: initialize_session_state is idempotent: a call sets the slots that are
\* absent to their defaults and leaves every slot that is populated as it is,
\* also while a run is in progress; calling it again changes nothing.
C12_InitializeIdempotent ==
    [][Initializes /\ SlotSet \subseteq DOMAIN session_state' =>
          /\ DOMAIN session_state' = DOMAIN session_state \cup SlotSet
          /\ \A k \in DOMAIN session_state : session_state'[k] = session_state[k]
          /\ \A k \in SlotSet \ DOMAIN session_state : session_state'[k] = Default(k)
          /\ initialize_session_state(session_state', 0) = session_state']_vars

\* initialize_session_state has run in a session with a run in progress whose
\* last slot was absent: the slot has its default, the run-control slots are
\* as the run has them
C12_Witness ==
    /\ main # None /\ main.pc = "initialized"
    /\ SlotSet \subseteq DOMAIN session_state
    /\ session_state.running_test = TRUE /\ session_state.progress = 37
    /\ session_state.vulnerabilities_found = 1
    /\ session_state.targets = << CallTarget >>
    /\ session_state.insights = <<>>

\* this step is main from cleanup_threads to its end, with no rerun in between
Renders == main # None /\ main.pc = "initialized" /\ main'.pc = "start" /\ main' # Rerunning

\* C13: when initialising a slot throws inside initialize_session_state, one
\* error message is written to the error slot, the slots gone through before
\* the failure keep their values, and main goes on to render the current page
\* with the slots that are there.
C13_InitFailureContinues ==
    [][/\ Initializes /\ main'.failed # 0 =>
             /\ session_state'.error_message = InitFailureMessage(Slots[main'.failed])
             /\ \A n \in 1..(main'.failed - 1) :
                   /\ Slots[n] \in DOMAIN session_state'
                   /\ Slots[n] # "error_message" =>
                         session_state'[Slots[n]] =
                            IF Slots[n] \in DOMAIN session_state
                            THEN session_state[Slots[n]] ELSE Default(Slots[n])
       /\ Renders /\ main.failed # 0 =>
             /\ main'.sidebar \in { "buttons", "buttons+error" }
             /\ main'.page # ""
             /\ main'.body \in { "page", "placeholder" }]_vars

\* C14: the observer never blocks the runner, and it renders progress and
\* vulnerabilities_found only while running_test is true: it enters the
\* progress branch only on a set flag, renders once what the store holds and
\* is then out of the branch, so that after the flag is cleared at most the
\* one render already begun takes place.
C14_ObserverStops ==
    /\ [](\A w \in Workers : is_alive(w) => ENABLED Worker(w))
    /\ [][/\ ui.pc # "observing" /\ ui'.pc = "observing" => running_test
          /\ shown' # shown /\ shown' # None =>
                /\ ui.pc = "observing" /\ ui'.pc = "idle"
                /\ shown' = [ progress |-> progress,
                              vulnerabilities_found |-> vulnerabilities_found ]
          /\ (\E w \in Workers : Moves(w)) => ui' = ui /\ shown' = shown
          /\ ui' # ui => UNCHANGED locals]_vars

\* the page shows the progress of a run that is half way, with its finding
C14_Witness ==
    /\ shown # None /\ shown.progress = 50 /\ shown.vulnerabilities_found = 1
    /\ running_test /\ pc[1] = "sleep" /\ i[1] = 50 /\ ui.pc = "idle"

\* the findings worker w holds in its results
Findings(res) == IF IsRunResult(res) THEN Len(res.vulnerabilities) ELSE 0

\* C15: the worker reads the flag at the step boundary only; once running_test
\* has been cleared under a live worker, the worker carries out at most one
\* more step (one progress update, at most one finding) and leaves the loop at
\* its next reading of the flag.
C15_OneMoreStep ==
    [][\A w \in Workers : Moves(w) /\ cancelled[w] # "no" =>
          /\ cancelled[w] = "stepped" => pc[w] # "sleep"
          /\ cancelled[w] = "stepped" /\ pc[w] = "check" => pc'[w] = "finalize"
          /\ Findings(results'[w]) > Findings(results[w]) => cancelled[w] = "yes"]_vars

\* the findings of RunResult res are numbered VULN-1, VULN-2, ... in their
\* order, and each carries the id, name and severity of one vector of test_vectors
WellFormedFindings(res, test_vectors) ==
    \A k \in 1..Len(res.vulnerabilities) :
        LET f == res.vulnerabilities[k]
        IN  /\ f.id = <<"VULN-", k>>
            /\ \E n \in 1..Len(test_vectors) :
                  /\ f.test_vector = test_vectors[n].id
                  /\ f.test_name = test_vectors[n].name
                  /\ f.severity = test_vectors[n].severity

\* C16: in every RunResult, while it is built and when it is stored, the i-th
\* finding has id VULN-i, so that ids are unique and without gaps, and each
\* finding's severity, test name and test vector id are those of one vector of
\* the input test_vectors.
C16_FindingIds ==
    [][\A w \in Workers : Moves(w) =>
          /\ IsRunResult(results'[w]) =>
                WellFormedFindings(results'[w], args'[w].test_vectors)
          /\ pc[w] = "finalize" =>
                /\ WellFormedFindings(test_results', args[w].test_vectors)
                /\ \A j, k \in 1..Len(test_results'.vulnerabilities) :
                      test_results'.vulnerabilities[j].id
                         = test_results'.vulnerabilities[k].id => j = k]_vars

\* a run over a low and a medium vector has stored two findings, one of each
C16_Witness ==
    /\ pc[1] \in { "finally", "done" } /\ IsRunResult(ret[1]) /\ test_results = ret[1]
    /\ Len(test_results.vulnerabilities) = 2
    /\ test_results.vulnerabilities[1].id = <<"VULN-", 1>>
    /\ test_results.vulnerabilities[1].test_vector = "xss"
    /\ test_results.vulnerabilities[2].id = <<"VULN-", 2>>
    /\ test_results.vulnerabilities[2].test_vector = "custom_low"

\* list after is list before, or list before with one element appended
SameOrAppended(before, after) ==
    \/ after = before
    \/ Len(after) = Len(before) + 1 /\ SubSeq(after, 1, Len(before)) = before

\* C17: findings are created by the worker only, and the finding list of a run
\* is append-only: every step leaves it as it is or appends one finding, the
\* stored RunResult holds that list, and once stored it is not changed.
C17_AppendOnly ==
    [][/\ \A w \in Workers :
            /\ results'[w] # results[w] => Moves(w)
            /\ IsRunResult(results[w]) /\ IsRunResult(results'[w]) =>
                  /\ SameOrAppended(results[w].vulnerabilities, results'[w].vulnerabilities)
                  /\ results'[w].vulnerabilities # results[w].vulnerabilities =>
                        pc[w] = "sleep"
            /\ pc[w] = "finalize" /\ Moves(w) =>
                  test_results'.vulnerabilities = results[w].vulnerabilities
       /\ test_results' # test_results =>
             \E w \in Workers : pc[w] = "finalize" /\ Moves(w)]_vars

\* a run has a second finding appended behind its first
C17_Witness ==
    /\ pc[1] = "load" /\ IsRunResult(results[1])
    /\ Len(results[1].vulnerabilities) = 2
    /\ results[1].vulnerabilities[1].test_vector = "custom_low"
    /\ results[1].vulnerabilities[2].test_vector = "xss"
    /\ results[1].summary.vulnerabilities_found = 2

\* the slots the renderers must leave alone when they fail
GuardedSlots ==
    { "targets", "test_results", "current_page", "running_test", "progress",
      "vulnerabilities_found", "active_threads" }

\* the renderer main routes to on this store raises inside its try body
RendererRaises(state) ==
    /\ { "error_message", "current_page" } \subseteq DOMAIN state
    /\ state.current_page \in RenderedPages
    /\ ~(Reads(state.current_page) \subseteq DOMAIN state)

\* the screen after the user clicks sidebar button c on this store and the
\* script runs again twice: once for the click, once to draw the page
AfterNavigation(state, c) ==
    LET clicked == MainBody(initialize_session_state(state, 0), c)
    IN  << clicked[2], MainBody(initialize_session_state(clicked[1], 0), "none")[2] >>

NetworkFailures(call) ==
    { k \in 1..Len(call.outcomes) : call.outcomes[k] = "RequestException" }

\* C19: retry_request makes at most retries attempts (3 by default), returns
\* the response of the first attempt answered with status 200, and when every
\* attempt fails with a network error it returns None without raising, having
\* waited 2^k seconds after the failed attempt k = 0, 1, 2: 1s, 2s, 4s.
C19_BoundedRetries ==
    retry # None =>
       /\ Len(retry.outcomes) <= retry.retries
       /\ \A k \in 1..Len(retry.outcomes) :
             retry.outcomes[k] = "200" =>
                /\ k = Len(retry.outcomes)
                /\ retry.pc = "done" /\ ~retry.raised
                /\ retry.ret = Response("200", k - 1)
       /\ retry.pc = "done" /\ retry.ret # None =>
             retry.outcomes[Len(retry.outcomes)] = "200"
       /\ retry.pc = "done" /\ retry.retries > 0 /\ retry.method \in { "head", "get" }
          /\ NetworkFailures(retry) = 1..Len(retry.outcomes) =>
             /\ Len(retry.outcomes) = retry.retries
             /\ retry.ret = None /\ ~retry.raised
             /\ retry.slept = [ k \in 1..retry.retries |-> 2 ^ (k - 1) ]
       /\ retry.pc = "done" /\ retry.retries = DefaultRetries
          /\ retry.outcomes = << "RequestException", "RequestException", "RequestException" >> =>
             retry.slept = << 1, 2, 4 >>
       /\ Len(retry.slept) <= Cardinality(NetworkFailures(retry))
       /\ \A j \in 1..Len(retry.slept) :
             \E k \in NetworkFailures(retry) :
                /\ retry.slept[j] = 2 ^ (k - 1)
                /\ Cardinality({ n \in NetworkFailures(retry) : n <= k }) = j

\* a call with the default three attempts, all three network errors
C19_Witness ==
    /\ retry # None /\ retry.pc = "done"
    /\ retry.retries = DefaultRetries /\ retry.method = "head"
    /\ retry.outcomes = << "RequestException", "RequestException", "RequestException" >>
    /\ retry.slept = << 1, 2, 4 >>
    /\ retry.ret = None /\ ~retry.raised

\* a value of the form {error: ...}
IsErrorValue(value) == DOMAIN value = { "error" }

\* the extension of a file name as the sentence means it: what follows the
\* last dot, in lower case
SpecExtension(name) == Lower(name[Len(name)])

\* C20: handle_multiple_file_formats never raises: it returns a value for
\* every file; for an extension outside json, csv, xlsx, xls, pdf, xml, yaml,
\* yml the value is {error: "Unsupported file format: <ext>"}, and for a
\* supported extension whose parsing throws the value is an {error: ...}.
C20_FileImportNeverRaises ==
    upload # None /\ upload.pc = "done" =>
       /\ ~upload.raised
       /\ upload.ret # None
       /\ upload.file.name # None =>
             LET ext == SpecExtension(upload.file.name)
             IN  /\ ext \notin SupportedFormats =>
                       upload.ret = [ error |-> << "Unsupported file format: ", ext >> ]
                 /\ ext \in SupportedFormats /\ upload.file.content # "parsed" =>
                       /\ IsErrorValue(upload.ret)
                       /\ upload.ret.error[1] # "Unsupported file format: "
                 /\ ext \in SupportedFormats /\ upload.file.content = "parsed" =>
                       ~IsErrorValue(upload.ret)
       /\ upload.file.name = None => IsErrorValue(upload.ret)

\* report.TXT has been rejected with its extension in lower case
C20_Witness ==
    /\ upload # None /\ upload.pc = "done"
    /\ upload.file.name = << "data", "TXT" >>
    /\ upload.ret = [ error |-> << "Unsupported file format: ", "txt" >> ]

\* data.JSON whose content json.loads rejects has come back as an error value
C20_WitnessParseThrows ==
    /\ upload # None /\ upload.pc = "done"
    /\ upload.file.name = << "data", "JSON" >> /\ upload.file.content = "throws"
    /\ upload.ret = FailedToProcess

\* "Last, F.": the family name, a comma and the initials of the given names
SpecAuthorEntry(author) ==
    author.family \o ", " \o
    (IF Len(author.given) = 0 THEN ""
     ELSE IF Len(author.given) = 1 THEN "F." ELSE "F.M.")

\* the entries of authors from..to, each followed by a comma and a space
RECURSIVE SpecCommaSeparated(_, _, _)
SpecCommaSeparated(authors, from, to) ==
    IF from > to THEN ""
    ELSE SpecAuthorEntry(authors[from]) \o ", " \o SpecCommaSeparated(authors, from + 1, to)

\* the entries of authors 1..to joined by commas
SpecJoined(authors, to) ==
    SpecCommaSeparated(authors, 1, to - 1) \o SpecAuthorEntry(authors[to])

\* a finished call of format_authors_apa on n authors
AuthorsFormatted(n) ==
    /\ citation # None /\ citation.fn = "format_authors_apa" /\ citation.pc = "done"
    /\ Len(citation.arg) = n

\* one author, and 2 to 20 authors, as the sentence has them
UpToTwentyAuthors ==
    /\ AuthorsFormatted(1) => citation.ret = SpecAuthorEntry(citation.arg[1])
    /\ AuthorsFormatted(2) =>
          citation.ret = SpecAuthorEntry(citation.arg[1]) \o ", & "
                            \o SpecAuthorEntry(citation.arg[2])
    /\ \A n \in 2..20 : AuthorsFormatted(n) =>
          citation.ret = SpecJoined(citation.arg, n - 1) \o ", & "
                            \o SpecAuthorEntry(citation.arg[n])

\* C21 as stated: "Last, F." for one author, "Last1, F1., & Last2, F2." for
\* two, for 2 to 20 all but the last joined by commas then ", & " and the
\* last, and above 20 the first 19 joined by commas followed by "... " and the
\* last author.
C21_AuthorsAsStated ==
    /\ UpToTwentyAuthors
    /\ \A n \in 21..MaxAuthors : AuthorsFormatted(n) =>
          citation.ret = SpecJoined(citation.arg, 19) \o "... "
                            \o SpecAuthorEntry(citation.arg[n])

\* C21: "Last, F." for one author, "Last1, F1., & Last2, F2." for two, for 2
\* to 20 all but the last joined by commas then ", & " and the last, and above
\* 20 the first 19 joined by commas followed by ", ... " and the last author.
C21_AuthorsApa ==
    /\ UpToTwentyAuthors
    /\ \A n \in 21..MaxAuthors : AuthorsFormatted(n) =>
          citation.ret = SpecJoined(citation.arg, 19) \o ", ... "
                            \o SpecAuthorEntry(citation.arg[n])

\* twenty-one authors have been formatted: nineteen, the ellipsis, the last
C21_Witness ==
    /\ AuthorsFormatted(21)
    /\ citation.arg[1].given = << "First" >> /\ citation.arg[2].given = << "First" >>
    /\ citation.ret = Join([ k \in 1..19 |-> "Last" \o ToString(k) \o ", F." ], ", ")
                         \o ", ... Last21, F."

\* a finished call of is_valid_doi_format
DoiChecked ==
    citation # None /\ citation.fn = "is_valid_doi_format" /\ citation.pc = "done"

\* the prefix "10.", 4 to 9 digits, a slash and a non-empty suffix of allowed
\* characters, and nothing else
WellFormedDoi(doi) ==
    \E digits \in 4..9 :
       /\ Len(doi) >= 3 + digits + 2
       /\ SubSeq(doi, 1, 3) = << "1", "0", "." >>
       /\ \A k \in 4..(3 + digits) : doi[k] \in Digits
       /\ doi[3 + digits + 1] = "/"
       /\ \A k \in (3 + digits + 2)..Len(doi) : doi[k] \in SuffixClass

\* the three examples: 10.1000/xyz123 accepted, abc/123 and 10.1/ rejected
DoiExamples ==
    /\ citation.arg = << "1", "0", ".", "1", "0", "0", "0", "/", "x", "y", "z", "1", "2", "3" >>
          => citation.ret = TRUE
    /\ citation.arg = << "a", "b", "c", "/", "1", "2", "3" >> => citation.ret = FALSE
    /\ citation.arg = << "1", "0", ".", "1", "/" >> => citation.ret = FALSE

\* C22: is_valid_doi_format accepts 10.1000/xyz123, rejects abc/123 and
\* 10.1/, and accepts exactly the strings made of the prefix "10.", 4 to 9
\* digits, a slash and a non-empty suffix of allowed characters.
C22_DoiFormat ==
    DoiChecked => DoiExamples /\ citation.ret = WellFormedDoi(citation.arg)

\* 10x1000/xyz123 has been accepted
C22_Accepted10x ==
    /\ DoiChecked /\ citation.ret = TRUE
    /\ citation.arg = << "1", "0", "x", "1", "0", "0", "0", "/", "x", "y", "z", "1", "2", "3" >>

\* the worker is inside 'for i in range(total_steps)'
InStepLoop(w) == pc[w] \in { "check", "sleep", "load", "store" }

\* C23: at any time at most one worker thread is inside its step loop: no
\* sequence of Run Assessment, Stop Test and Run Assessment leaves two workers
\* updating progress and vulnerabilities_found side by side.
C23_SingleRunner ==
    Cardinality({ w \in Workers : InStepLoop(w) }) <= 1

\* C24: after any sequence of Add Target and Delete, every stored target has
\* a non-empty name and a non-empty endpoint; the list grows only by one such
\* target at its end, so a submission with an empty name or endpoint leaves
\* it unchanged; and a run starts only when targets is non-empty and the
\* selected name is the name of a stored target, which the run is given.
C24_TargetsWellFormed ==
    /\ [](\A k \in 1..Len(targets) : targets[k].name # "" /\ targets[k].endpoint # "")
    /\ [][/\ Len(targets') > Len(targets) =>
                /\ Len(targets') = Len(targets) + 1
                /\ SubSeq(targets', 1, Len(targets)) = targets
                /\ targets'[Len(targets')].name # ""
                /\ targets'[Len(targets')].endpoint # ""
          /\ Len(targets') < Len(targets) =>
                \E k \in 1..Len(targets) : targets' = Pop(targets, k)
          /\ Len(targets') = Len(targets) => targets' = targets
          /\ \A w \in Workers : Starts(w) =>
                /\ targets # <<>>
                /\ \E k \in 1..Len(targets) : targets[k] = args'[w].target]_vars

\* a run has been started on the one stored target, selected by its name
C24_Witness ==
    /\ Len(targets) = 1 /\ targets[1].name = "beta"
    /\ targets[1].endpoint = "https://alpha.example/api"
    /\ pc[1] = "reset_progress" /\ args[1].target = targets[1]
    /\ ui.pc = "started"

\* C25: names need not be unique: a target whose name is already stored is
\* added and both are kept; and a run started with that name selected is
\* executed against the entry the user selected, whichever of them it is.
C25_RunsSelectedTarget ==
    [][\A w \in Workers : Starts(w) =>
          \A k \in 1..Len(targets) :
             targets[k].name = args'[w].target.name => args'[w].target = targets[k]]_vars

\* the summary of this RunResult counts the findings of its list
CountsItsFindings(v) ==
    IsRunResult(v) => v.summary.vulnerabilities_found = Len(v.vulnerabilities)

\* C26: in every RunResult run_mock_test stores or returns,
\* summary.vulnerabilities_found is the length of the vulnerabilities list of
\* that RunResult.
C26_SummaryCountsFindings ==
    /\ CountsItsFindings(test_results)
    /\ \A w \in Workers : pc[w] = "done" => CountsItsFindings(ret[w])

\* a run has stored a RunResult of two findings counted as two
C26_Witness ==
    /\ pc[1] = "done" /\ IsRunResult(ret[1]) /\ test_results = ret[1]
    /\ Len(test_results.vulnerabilities) = 2
    /\ test_results.summary.vulnerabilities_found = 2
    /\ test_results.summary.total_tests > 0

\* the threads a list tracks
Tracked(threads) == { threads[k] : k \in 1..Len(threads) }

\* a step of the UI thread that begins a run of the script, and so calls
\* cleanup_threads: every UI step but the second half of Run Assessment
CleansUp ==
    /\ ui.pc = "idle"
    /\ \A w \in Workers : pc'[w] = pc[w] \/ Starts(w)

\* C27: cleanup_threads keeps exactly the tracked threads that are alive, in
\* their order: no live thread is dropped and no finished one kept, the list
\* is empty after a cleanup when no worker is running, and a worker that has
\* been started and tracked stays tracked until it finishes.
C27_CleanupKeepsLiveThreads ==
    /\ [](ui.pc = "idle" => \A w \in Workers : is_alive(w) => w \in Tracked(active_threads))
    /\ [][/\ CleansUp =>
                /\ Tracked(active_threads') =
                      { w \in Tracked(active_threads) : is_alive(w) }
                /\ Len(active_threads') = Cardinality(Tracked(active_threads'))
                /\ \A a, b \in 1..Len(active_threads') : a < b =>
                      \E x, y \in 1..Len(active_threads) :
                         /\ x < y
                         /\ active_threads[x] = active_threads'[a]
                         /\ active_threads[y] = active_threads'[b]
                /\ (\A w \in Workers : ~is_alive(w)) => active_threads' = <<>>
          /\ \A w \in Workers :
                w \in Tracked(active_threads) /\ w \notin Tracked(active_threads') =>
                   ~is_alive(w)]_vars

\* the first worker has finished and has been dropped while the second, still
\* in its loop, is kept
C27_Witness ==
    /\ active_threads = << 2 >>
    /\ pc[1] = "done" /\ pc[2] = "sleep"
    /\ ui.pc = "idle"

\* C28: routing is total: every page name the sidebar offers has its branch
\* in main's chain; on any other value of current_page main sets it to
\* "Dashboard" and renders the dashboard; a routed value is left as it is, a
\* click sets a sidebar name, and when main has returned without error
\* current_page is a routed name, the page shown.
C28_RoutingTotal ==
    /\ [](SidebarPages \subseteq RoutedPages)
    /\ [](main # None /\ main.pc = "start" /\ main.body \in { "page", "placeholder" } =>
             /\ session_state.current_page \in RoutedPages
             /\ main.page = session_state.current_page)
    /\ [][Renders /\ { "error_message", "current_page" } \subseteq DOMAIN session_state =>
             /\ session_state.current_page \notin RoutedPages =>
                   /\ session_state'.current_page = "Dashboard"
                   /\ main'.page = "Dashboard" /\ main'.body \in { "page", "placeholder" }
             /\ session_state.current_page \in RoutedPages =>
                   session_state'.current_page = session_state.current_page
             /\ session_state.current_page \in SidebarPages \cap RenderedPages =>
                   main'.page = session_state.current_page]_vars

\* main has returned without error on a page of the sidebar, its own branch
\* of the routing chain taken
C28_Witness ==
    /\ main # None /\ main.pc = "start" /\ main.failed = 0
    /\ main.page = "Citation Tool" /\ main.body = "page"
    /\ session_state.current_page = "Citation Tool"
    /\ session_state.progress = 37

\* C29: carbon tracking switched on at the start of a run is active only
\* during the test: when the run has ended, by completion, cancellation or
\* error, carbon_tracking_active is false again and the tracker is not in the
\* is_tracking state.
C29_TrackingEndsWithRun ==
    (ui.pc = "idle" /\ \A w \in Workers : ~is_alive(w)) =>
       /\ ~carbon_tracking_active
       /\ carbon_tracker # None => ~carbon_tracker.is_tracking

\* the sum of a list of numbers
RECURSIVE SumOf(_)
SumOf(list) == IF list = <<>> THEN 0 ELSE Head(list) + SumOf(Tail(list))

\* this step is a call of the method
Calls(method) == carbon'.method = method /\ carbon_tracker # None

\* C30: over any sequence of initialize_tracker, start_tracking and
\* stop_tracking: start_tracking on a tracker never initialised returns False
\* and leaves is_tracking unset; stop_tracking when not tracking returns 0.0
\* and records nothing; a successful stop appends exactly one measurement, the
\* value it returns, and clears is_tracking; total_emissions is always the sum
\* of measurements.
C30_TrackerAccounting ==
    /\ [](carbon_tracker # None =>
             /\ carbon_tracker.total_emissions = SumOf(carbon_tracker.measurements)
             /\ carbon_tracker.is_tracking => carbon_tracker.tracker # None)
    /\ [][/\ Calls("start_tracking") /\ carbon_tracker.tracker = None =>
                /\ carbon'.returns = FALSE
                /\ ~carbon_tracker'.is_tracking
                /\ carbon_tracker' = carbon_tracker
          /\ Calls("start_tracking") /\ carbon_tracker.tracker # None =>
                carbon'.returns = TRUE /\ carbon_tracker'.is_tracking
          /\ Calls("stop_tracking") /\ ~carbon_tracker.is_tracking =>
                /\ carbon'.returns = 0
                /\ carbon_tracker' = carbon_tracker
          /\ Calls("stop_tracking") /\ carbon_tracker.is_tracking =>
                /\ Len(carbon_tracker'.measurements) = Len(carbon_tracker.measurements) + 1
                /\ SubSeq(carbon_tracker'.measurements, 1, Len(carbon_tracker.measurements))
                      = carbon_tracker.measurements
                /\ carbon'.returns =
                      carbon_tracker'.measurements[Len(carbon_tracker'.measurements)]
                /\ carbon'.returns > 0
                /\ ~carbon_tracker'.is_tracking
                /\ carbon_tracker'.tracker = carbon_tracker.tracker
          /\ ~Calls("stop_tracking") /\ carbon_tracker # None /\ carbon_tracker' # None =>
                carbon_tracker'.measurements = carbon_tracker.measurements]_vars

\* a tracker after two successful stops, the second just made
C30_Witness ==
    /\ carbon # None /\ carbon.method = "stop_tracking" /\ carbon.returns = 50
    /\ carbon_tracker.measurements = << 100, 50 >>
    /\ carbon_tracker.total_emissions = 150
    /\ ~carbon_tracker.is_tracking

====
